---- MODULE Spec2Model ----
(***************************************************************************)
(* Model of two components of the signatures repository:                   *)
(*   - ed448/src/hex.rs    : strict hexadecimal codec of Signature         *)
(*   - ecdsa/src/verify.rs : VerifyingKey (decode, encode, verify)         *)
(* Text is modelled as a sequence of byte values (0..255), a signature as  *)
(* a record of two byte sequences.                                         *)
(***************************************************************************)
EXTENDS Integers, Sequences, FiniteSets, TLC

VARIABLES
    hex,      \* the text in the caller's hand (a byte sequence) or None
    sig,      \* the signature value in the caller's hand, or None
    src,      \* the input the run started from: [kind, text] or [kind, sig]
    res,      \* the result of the last Signature::from_str, or None
    last,     \* the operation that ran last
    key,      \* the VerifyingKey in the caller's hand, or None
    arg,      \* the argument in the caller's hand: a record with a kind
    kres      \* the result of the last VerifyingKey operation, or None

hexvars == <<hex, sig, src, res>>

keyvars == <<key, arg, kres>>

vars == <<hex, sig, src, res, last, key, arg, kres>>

None == [none |-> TRUE]

(***************************************************************************)
(* Bounds of the model.                                                    *)
(***************************************************************************)
\* bytes in one component (R or s) of a signature
ComponentSize == 1

\* Signature::BYTE_SIZE: the two components together
BYTE_SIZE == 2 * ComponentSize

(***************************************************************************)
(* Results and the error value.  signature::Error carries no payload:      *)
(* Error::new() is the only value of its kind.                             *)
(***************************************************************************)
Error_new == [kind |-> "signature::Error"]

Ok(v) == [ok |-> TRUE, val |-> v]

Err(e) == [ok |-> FALSE, err |-> e]

(***************************************************************************)
(* Byte classes of the case scan.                                          *)
(***************************************************************************)
\* variant: the range b'0'..b'9' without its upper end
IsDigit_exclusive(b) == b \in 48..56

IsDigit(b) == b \in 48..57

IsLower(b) == b \in 97..122

IsUpper(b) == b \in 65..90

(***************************************************************************)
(* fmt::LowerHex / fmt::UpperHex: "{:02x}" and "{:02X}" of every byte of R *)
(* and then of every byte of s.                                            *)
(***************************************************************************)
LowerDigit(d) == IF d < 10 THEN 48 + d ELSE 87 + d

UpperDigit(d) == IF d < 10 THEN 48 + d ELSE 55 + d

\* variant: "{:x}", without the zero padding
Fmt02x_unpadded(byte) ==
    IF byte < 16 THEN <<LowerDigit(byte)>>
    ELSE <<LowerDigit(byte \div 16), LowerDigit(byte % 16)>>

Fmt02x(byte) == <<LowerDigit(byte \div 16), LowerDigit(byte % 16)>>

Fmt02X(byte) == <<UpperDigit(byte \div 16), UpperDigit(byte % 16)>>

RECURSIVE WriteLower(_)
WriteLower(component) ==
    IF component = <<>> THEN <<>>
    ELSE Fmt02x(Head(component)) \o WriteLower(Tail(component))

RECURSIVE WriteUpper(_)
WriteUpper(component) ==
    IF component = <<>> THEN <<>>
    ELSE Fmt02X(Head(component)) \o WriteUpper(Tail(component))

LowerHex(s) == WriteLower(s.R) \o WriteLower(s.s)

\* variant: the s component written before R
UpperHex_swapped(s) == WriteUpper(s.s) \o WriteUpper(s.R)

UpperHex(s) == WriteUpper(s.R) \o WriteUpper(s.s)

(***************************************************************************)
(* Signature::try_from(&[u8]): the total length is checked, and the bytes   *)
(* become R and then s.                                                    *)
(***************************************************************************)
SigValid(bytes) == Len(bytes) = BYTE_SIZE

TryFrom(bytes) ==
    IF SigValid(bytes)
    THEN Ok([R |-> SubSeq(bytes, 1, ComponentSize),
             s |-> SubSeq(bytes, ComponentSize + 1, BYTE_SIZE)])
    ELSE Err(Error_new)

ToBytes(s) == s.R \o s.s

(***************************************************************************)
(* The case scan of from_str (the for loop over hex.as_bytes()).           *)
(* upper_case is "None", "Some(true)" or "Some(false)".  The result says   *)
(* whether the scan passed and how many bytes it looked at.                *)
(***************************************************************************)
\* variant: the lowercase arm tests Some(false) where it should test Some(true)
RECURSIVE CaseScan_swapped(_, _, _)
CaseScan_swapped(h, i, upper_case) ==
    IF i > Len(h)
    THEN [ok |-> TRUE, upper_case |-> upper_case, scanned |-> Len(h)]
    ELSE LET byte == h[i]
             fail == [ok |-> FALSE, upper_case |-> upper_case, scanned |-> i]
         IN  IF IsDigit(byte) THEN CaseScan_swapped(h, i + 1, upper_case)
             ELSE IF IsLower(byte) THEN
                 IF upper_case = "Some(false)" THEN fail
                 ELSE CaseScan_swapped(h, i + 1, "Some(false)")
             ELSE IF IsUpper(byte) THEN
                 IF upper_case = "Some(false)" THEN fail
                 ELSE CaseScan_swapped(h, i + 1, "Some(true)")
             ELSE fail

RECURSIVE CaseScan(_, _, _)
CaseScan(h, i, upper_case) ==
    IF i > Len(h)
    THEN [ok |-> TRUE, upper_case |-> upper_case, scanned |-> Len(h)]
    ELSE LET byte == h[i]
             fail == [ok |-> FALSE, upper_case |-> upper_case, scanned |-> i]
         IN  IF IsDigit(byte) THEN CaseScan(h, i + 1, upper_case)
             ELSE IF IsLower(byte) THEN
                 IF upper_case = "Some(true)" THEN fail
                 ELSE CaseScan(h, i + 1, "Some(false)")
             ELSE IF IsUpper(byte) THEN
                 IF upper_case = "Some(false)" THEN fail
                 ELSE CaseScan(h, i + 1, "Some(true)")
             ELSE fail

(***************************************************************************)
(* str::from_utf8 of a two-byte chunk and u8::from_str_radix(s, 16).       *)
(***************************************************************************)
\* a two-byte slice is UTF-8 when it is two ASCII bytes or one 2-byte sequence
FromUtf8Ok(digit) ==
    \/ digit[1] < 128 /\ digit[2] < 128
    \/ digit[1] \in 194..223 /\ digit[2] \in 128..191

\* variant: char::to_digit(36)
ToDigit36(c) ==
    IF c \in 48..57 THEN c - 48
    ELSE IF c \in 97..122 THEN c - 87
    ELSE IF c \in 65..90 THEN c - 55
    ELSE -1

\* char::to_digit(16): the digit's value, or -1
ToDigit16(c) ==
    IF c \in 48..57 THEN c - 48
    ELSE IF c \in 97..102 THEN c - 87
    ELSE IF c \in 65..70 THEN c - 55
    ELSE -1

\* the digits after an optional leading '+' (u8 is unsigned: '-' is no sign)
RadixDigits(s) == IF Len(s) > 1 /\ s[1] = 43 THEN Tail(s) ELSE s

RECURSIVE RadixAcc(_, _)
RadixAcc(digits, acc) ==
    IF acc < 0 \/ digits = <<>> THEN acc
    ELSE IF ToDigit16(Head(digits)) < 0 THEN -1
    ELSE IF acc * 16 + ToDigit16(Head(digits)) > 255 THEN -1
    ELSE RadixAcc(Tail(digits), acc * 16 + ToDigit16(Head(digits)))

\* the parsed byte, or -1 for an error
FromStrRadix16(s) ==
    IF s = <<>> THEN -1
    ELSE IF s[1] >= 128 THEN -1
    ELSE RadixAcc(RadixDigits(s), 0)

ParseChunk(digit) == IF FromUtf8Ok(digit) THEN FromStrRadix16(digit) ELSE -1

(***************************************************************************)
(* The byte-pair loop: chunks_exact(2) zipped with the BYTE_SIZE slots of  *)
(* result, which starts as all zeroes.  Stops at the first bad pair.       *)
(***************************************************************************)
Min(a, b) == IF a < b THEN a ELSE b

Zeroes == [i \in 1..BYTE_SIZE |-> 0]

\* variant: the slots of result filled from the last to the first
RECURSIVE ParsePairs_rev(_, _, _)
ParsePairs_rev(h, i, result) ==
    IF i > Min(Len(h) \div 2, BYTE_SIZE)
    THEN [ok |-> TRUE, result |-> result, parsed |-> i - 1]
    ELSE LET byte == ParseChunk(<<h[2 * i - 1], h[2 * i]>>)
         IN  IF byte < 0
             THEN [ok |-> FALSE, result |-> result, parsed |-> i]
             ELSE ParsePairs_rev(h, i + 1, [result EXCEPT ![BYTE_SIZE + 1 - i] = byte])

RECURSIVE ParsePairs(_, _, _)
ParsePairs(h, i, result) ==
    IF i > Min(Len(h) \div 2, BYTE_SIZE)
    THEN [ok |-> TRUE, result |-> result, parsed |-> i - 1]
    ELSE LET byte == ParseChunk(<<h[2 * i - 1], h[2 * i]>>)
         IN  IF byte < 0
             THEN [ok |-> FALSE, result |-> result, parsed |-> i]
             ELSE ParsePairs(h, i + 1, [result EXCEPT ![i] = byte])

(***************************************************************************)
(* Signature::from_str.  Besides the Result, the record tells the stage    *)
(* that returned and how many bytes were scanned and pairs parsed.         *)
(***************************************************************************)
\* variant: only too short a text is refused
LengthOk_atleast(h) == Len(h) >= BYTE_SIZE * 2

LengthOk(h) == Len(h) = BYTE_SIZE * 2

from_str(h) ==
    IF ~LengthOk(h)
    THEN [r |-> Err(Error_new), stage |-> "length", scanned |-> 0, parsed |-> 0]
    ELSE LET scan == CaseScan(h, 1, "None") IN
         IF ~scan.ok
         THEN [r |-> Err(Error_new), stage |-> "scan",
               scanned |-> scan.scanned, parsed |-> 0]
         ELSE LET p == ParsePairs(h, 1, Zeroes) IN
              IF ~p.ok
              THEN [r |-> Err(Error_new), stage |-> "parse",
                    scanned |-> scan.scanned, parsed |-> p.parsed]
              ELSE [r |-> TryFrom(p.result), stage |-> "construct",
                    scanned |-> scan.scanned, parsed |-> p.parsed]

(***************************************************************************)
(* Inputs.                                                                 *)
(***************************************************************************)
\* bytes a text may hold: + - space / 0 1 9 : @ A F G Z [ ` a f g z {, and
\* the two bytes of U+00E9
Chars == {32, 43, 45, 47, 48, 49, 57, 58, 64, 65, 70, 71, 90, 91, 96,
          97, 102, 103, 122, 123, 195, 169}

\* the byte a text is filled with where it is not chosen freely: 0 9 a F
Fillers == {48, 57, 97, 70}

Lens == {0, BYTE_SIZE, 2 * BYTE_SIZE - 1, 2 * BYTE_SIZE, 2 * BYTE_SIZE + 1}

\* texts with two freely chosen bytes in a uniform filling
Texts ==
    { [i \in 1..n |-> IF i = p1 THEN c1 ELSE IF i = p2 THEN c2 ELSE f] :
        <<n, p1, p2, c1, c2, f>> \in
            { t \in Lens \X (1..(2 * BYTE_SIZE + 1)) \X (1..(2 * BYTE_SIZE + 1))
                      \X Chars \X Chars \X Fillers :
                  t[2] <= t[3] } }

\* byte values a signature component may hold
ByteVals == {0, 9, 10, 26, 127, 128, 161, 255}

Components == [1..ComponentSize -> ByteVals]

Sigs == [R : Components, s : Components]

(***************************************************************************)
(* The codec as a state machine: the caller starts with a text or with a   *)
(* signature value and applies from_str and the two formatters.            *)
(***************************************************************************)
HexInit ==
    /\ key = None /\ arg = None /\ kres = None
    /\ res = None
    /\ last = "init"
    /\ \/ /\ hex \in Texts
          /\ sig = None
          /\ src = [kind |-> "text", text |-> hex]
       \/ /\ hex = None
          /\ sig \in {s \in Sigs : SigValid(ToBytes(s))}
          /\ src = [kind |-> "sig", sig |-> sig]

FromStr ==
    /\ hex # None
    /\ res' = from_str(hex)
    /\ sig' = IF res'.r.ok THEN res'.r.val ELSE None
    /\ last' = "from_str"
    /\ UNCHANGED <<hex, src, keyvars>>

FmtLowerHex ==
    /\ sig # None
    /\ hex' = LowerHex(sig)
    /\ last' = "lower_hex"
    /\ UNCHANGED <<sig, src, res, keyvars>>

FmtUpperHex ==
    /\ sig # None
    /\ hex' = UpperHex(sig)
    /\ last' = "upper_hex"
    /\ UNCHANGED <<sig, src, res, keyvars>>

HexNext == FromStr \/ FmtLowerHex \/ FmtUpperHex

HexSpec == HexInit /\ [][HexNext]_vars

(***************************************************************************)
(* VerifyingKey<C> (ecdsa/src/verify.rs).  The curve C of the model is the *)
(* Weierstrass curve y^2 = x^3 + 2x + 2 over the field of 17 elements,     *)
(* whose 19 points form a group of prime order generated by (5, 1).  A     *)
(* field element and a scalar take one byte.                               *)
(***************************************************************************)
Curve == [p |-> 17, a |-> 2, b |-> 2, n |-> 19, G |-> [x |-> 5, y |-> 1, infinity |-> FALSE]]

Identity == [x |-> 0, y |-> 0, infinity |-> TRUE]

\* the inverse of v modulo the prime m (v not a multiple of m)
InvMod(v, m) == CHOOSE w \in 1..(m - 1) : (v * w) % m = 1

OnCurve(x, y) ==
    (y * y) % Curve.p = (x * x * x + Curve.a * x + Curve.b) % Curve.p

Add(P, Q) ==
    IF P.infinity THEN Q
    ELSE IF Q.infinity THEN P
    ELSE IF P.x = Q.x /\ (P.y + Q.y) % Curve.p = 0 THEN Identity
    ELSE LET m == IF P = Q
                  THEN ((3 * P.x * P.x + Curve.a) * InvMod((2 * P.y) % Curve.p, Curve.p)) % Curve.p
                  ELSE ((Q.y - P.y) * InvMod((Q.x - P.x) % Curve.p, Curve.p)) % Curve.p
             x3 == (m * m - P.x - Q.x) % Curve.p
         IN  [x |-> x3, y |-> (m * (P.x - x3) - P.y) % Curve.p, infinity |-> FALSE]

RECURSIVE Mul(_, _)
Mul(k, P) ==
    IF k = 0 THEN Identity
    ELSE IF k % 2 = 0 THEN LET H == Mul(k \div 2, P) IN Add(H, H)
    ELSE Add(P, Mul(k - 1, P))

\* the affine points of the curve other than the identity
AffinePoints ==
    { [x |-> x, y |-> y, infinity |-> FALSE] :
        <<x, y>> \in { c \in (0..(Curve.p - 1)) \X (0..(Curve.p - 1)) : OnCurve(c[1], c[2]) } }

(***************************************************************************)
(* SEC1 point encoding: <<0>> for the identity, <<2 or 3, x>> compressed   *)
(* (3 when y is odd), <<4, x, y>> uncompressed.                            *)
(***************************************************************************)
OptSome(v) == [some |-> TRUE, val |-> v]

OptNone == [some |-> FALSE]

\* EncodedPoint::from_bytes: the tag decides the length
EncodedPoint_from_bytes(bytes) ==
    IF bytes = <<>> THEN OptNone
    ELSE LET tag == bytes[1]
             want == IF tag = 0 THEN 1
                     ELSE IF tag \in {2, 3} THEN 2
                     ELSE IF tag = 4 THEN 3
                     ELSE 0
         IN  IF Len(bytes) = want THEN OptSome(bytes) ELSE OptNone

\* AffinePoint::from_encoded_point: decompression and the on-curve check
Decompress(x, y_is_odd) ==
    LET roots == { y \in 0..(Curve.p - 1) : OnCurve(x, y) }
    IN  IF x >= Curve.p \/ roots = {} THEN OptNone
        ELSE LET beta == CHOOSE y \in roots : TRUE
                 y == IF (beta % 2 = 1) = y_is_odd THEN beta
                      ELSE (Curve.p - beta) % Curve.p
             IN  OptSome([x |-> x, y |-> y, infinity |-> FALSE])

AffinePoint_from_encoded_point(ep) ==
    IF ep[1] = 0 THEN OptSome(Identity)
    ELSE IF ep[1] = 4
    THEN IF ep[2] < Curve.p /\ ep[3] < Curve.p /\ OnCurve(ep[2], ep[3])
         THEN OptSome([x |-> ep[2], y |-> ep[3], infinity |-> FALSE])
         ELSE OptNone
    ELSE Decompress(ep[2], ep[1] = 3)

\* PublicKey::from_encoded_point: a public key is never the identity
PublicKey_from_encoded_point(ep) ==
    LET pt == AffinePoint_from_encoded_point(ep)
    IN  IF pt.some /\ ~pt.val.infinity THEN OptSome([point |-> pt.val]) ELSE OptNone

\* PublicKey::from_sec1_bytes, with elliptic_curve's own error
PublicKey_from_sec1_bytes(bytes) ==
    LET ep == EncodedPoint_from_bytes(bytes)
        pk == IF ep.some THEN PublicKey_from_encoded_point(ep.val) ELSE OptNone
    IN  IF pk.some THEN Ok(pk.val) ELSE Err([kind |-> "elliptic_curve::Error"])

\* PublicKey::to_encoded_point
PublicKey_to_encoded_point(pk, compress) ==
    IF compress THEN <<2 + (pk.point.y % 2), pk.point.x>>
    ELSE <<4, pk.point.x, pk.point.y>>

\* PublicKey::as_affine
as_affine(pk) == pk.point

(***************************************************************************)
(* VerifyingKey: construction, serialisation, equality, conversions.       *)
(***************************************************************************)
\* variant: without map_err, the error of elliptic_curve passes through
from_sec1_bytes_unmapped(bytes) ==
    LET r == PublicKey_from_sec1_bytes(bytes)
    IN  IF r.ok THEN Ok([inner |-> r.val]) ELSE r

from_sec1_bytes(bytes) ==
    LET r == PublicKey_from_sec1_bytes(bytes)
    IN  IF r.ok THEN Ok([inner |-> r.val]) ELSE Err(Error_new)

\* variant: a compressed point is refused
from_encoded_point_uncompressed(public_key) ==
    LET r == PublicKey_from_encoded_point(public_key)
    IN  IF r.some /\ public_key[1] = 4 THEN Ok([inner |-> r.val]) ELSE Err(Error_new)

from_encoded_point(public_key) ==
    LET r == PublicKey_from_encoded_point(public_key)
    IN  IF r.some THEN Ok([inner |-> r.val]) ELSE Err(Error_new)

to_encoded_point(self, compress) == PublicKey_to_encoded_point(self.inner, compress)

eq(self, other) == self.inner = other.inner

\* From<PublicKey<C>> for VerifyingKey<C>
VerifyingKey_from(public_key) == [inner |-> public_key]

(***************************************************************************)
(* The digest, the scalar of a digest, and the verification primitive.     *)
(***************************************************************************)
\* Digest::new() and Digest::chain: the hasher holds what it absorbed
Digest_new == [absorbed |-> <<>>]

Digest_chain(d, data) == [absorbed |-> d.absorbed \o data]

\* the one-byte hash of the absorbed bytes
RECURSIVE HashAcc(_, _)
HashAcc(data, acc) ==
    IF data = <<>> THEN acc
    ELSE HashAcc(Tail(data), (acc * 31 + Head(data) + 7) % 256)

Digest_finalize(d) == HashAcc(d.absorbed, 0)

\* Scalar::from_digest: the digest's bytes reduced modulo the group order
from_digest(d) == Digest_finalize(d) % Curve.n

\* VerifyPrimitive::verify_prehashed on the affine point
verify_prehashed(point, z, signature) ==
    LET s_inv == InvMod(signature.s, Curve.n)
        u1 == (z * s_inv) % Curve.n
        u2 == (signature.r * s_inv) % Curve.n
        X == Add(Mul(u1, Curve.G), Mul(u2, point))
    IN  IF ~X.infinity /\ X.x % Curve.n = signature.r
        THEN Ok(<<>>)
        ELSE Err(Error_new)

verify_digest(self, digest, signature) ==
    verify_prehashed(as_affine(self.inner), from_digest(digest), signature)

\* variant: the message is never fed to the digest
verify_unchained(self, msg, signature) ==
    verify_digest(self, Digest_new, signature)

verify(self, msg, signature) ==
    verify_digest(self, Digest_chain(Digest_new, msg), signature)

(***************************************************************************)
(* The container formats (features pkcs8 and pem).                         *)
(***************************************************************************)
pkcs8_Error(variant) == [kind |-> "pkcs8::Error", variant |-> variant]

\* PublicKey::from_spki: the algorithm and curve identifiers, then the point
PublicKey_from_spki(spki) ==
    IF spki.oid # "id-ecPublicKey" \/ spki.parameters # "curve"
    THEN Err(pkcs8_Error("Decode"))
    ELSE LET r == PublicKey_from_sec1_bytes(spki.subject_public_key)
         IN  IF r.ok THEN r ELSE Err(pkcs8_Error("Decode"))

from_spki(spki) ==
    LET r == PublicKey_from_spki(spki)
    IN  IF r.ok THEN Ok([inner |-> r.val]) ELSE r

\* FromPublicKey::from_public_key_pem: the armour, the DER, then from_spki
from_public_key_pem(s) ==
    IF ~s.armour THEN Err(pkcs8_Error("Pem"))
    ELSE IF ~s.der THEN Err(pkcs8_Error("Decode"))
    ELSE from_spki(s.spki)

\* FromStr for VerifyingKey
VerifyingKey_from_str(s) ==
    LET r == from_public_key_pem(s)
    IN  IF r.ok THEN r ELSE Err(Error_new)

(***************************************************************************)
(* Inputs of the VerifyingKey operations.                                  *)
(***************************************************************************)
\* longest message, in bytes
MaxMsgLen == 2

MsgBytes == {0, 255}

Messages == UNION { [1..n -> MsgBytes] : n \in 0..MaxMsgLen }

\* one byte of a coordinate: every field element and two values past them
CoordBytes == 0..(Curve.p + 1)

Tags == {0, 2, 3, 4, 5}

Sec1Bytes ==
    {<<>>} \cup { <<t>> : t \in Tags }
           \cup { <<t, x>> : <<t, x>> \in Tags \X CoordBytes }
           \cup { <<t, x, y>> : <<t, x, y>> \in Tags \X CoordBytes \X CoordBytes }
           \cup { <<t, x, y, 0>> : <<t, x, y>> \in Tags \X {5, 6} \X CoordBytes }

\* the values of the type EncodedPoint
EncodedPoints ==
    {<<0>>} \cup { <<t, x>> : <<t, x>> \in {2, 3} \X CoordBytes }
            \cup { <<4, x, y>> : <<x, y>> \in CoordBytes \X CoordBytes }

\* the values of the type PublicKey
PublicKeys == { [point |-> P] : P \in AffinePoints }

\* ECDSA signatures: r and s are non-zero scalars
EcdsaSignatures == [r : 1..(Curve.n - 1), s : 1..(Curve.n - 1)]

Spkis ==
    [oid : {"id-ecPublicKey", "rsaEncryption"},
     parameters : {"curve", "other-curve", "absent"},
     subject_public_key : { b \in Sec1Bytes : Len(b) \in {0, 2, 3} /\ (Len(b) > 0 => b[2] \in 4..7) }]

Pems == [armour : BOOLEAN, der : BOOLEAN, spki : { k \in Spkis : k.subject_public_key # <<>> }]

KeyInit ==
    /\ hex = None /\ sig = None /\ src = None /\ res = None
    /\ last = "init"
    /\ kres = None
    /\ \/ /\ key = None
          /\ arg \in [kind : {"bytes"}, bytes : Sec1Bytes]
                \cup [kind : {"point"}, point : EncodedPoints]
                \cup [kind : {"spki"}, spki : Spkis]
                \cup [kind : {"pem"}, pem : Pems]
       \/ /\ key \in { VerifyingKey_from(pk) : pk \in PublicKeys }
          /\ arg \in [kind : {"none"}]
                \cup [kind : {"signed"}, data : Messages, signature : EcdsaSignatures]

FromSec1Bytes ==
    /\ arg # None /\ arg.kind = "bytes" /\ last = "init"
    /\ kres' = from_sec1_bytes(arg.bytes)
    /\ last' = "from_sec1_bytes"
    /\ UNCHANGED <<hexvars, key, arg>>

FromEncodedPoint ==
    /\ arg # None /\ arg.kind = "point" /\ last \in {"init", "to_encoded_point"}
    /\ kres' = from_encoded_point(arg.point)
    /\ last' = "from_encoded_point"
    /\ UNCHANGED <<hexvars, key, arg>>

ToEncodedPoint(compress) ==
    /\ key # None /\ arg.kind = "none" /\ last = "init"
    /\ arg' = [kind |-> "point", point |-> to_encoded_point(key, compress),
               compress |-> compress]
    /\ last' = "to_encoded_point"
    /\ UNCHANGED <<hexvars, key, kres>>

Verify ==
    /\ key # None /\ arg.kind = "signed" /\ last = "init"
    /\ kres' = verify(key, arg.data, arg.signature)
    /\ last' = "verify"
    /\ UNCHANGED <<hexvars, key, arg>>

VerifyDigest ==
    /\ key # None /\ arg.kind = "signed" /\ last = "init"
    /\ kres' = verify_digest(key, Digest_chain(Digest_new, arg.data), arg.signature)
    /\ last' = "verify_digest"
    /\ UNCHANGED <<hexvars, key, arg>>

FromSpki ==
    /\ arg # None /\ arg.kind = "spki" /\ last = "init"
    /\ kres' = from_spki(arg.spki)
    /\ last' = "from_spki"
    /\ UNCHANGED <<hexvars, key, arg>>

FromStrPem ==
    /\ arg # None /\ arg.kind = "pem" /\ last = "init"
    /\ kres' = VerifyingKey_from_str(arg.pem)
    /\ last' = "from_str_pem"
    /\ UNCHANGED <<hexvars, key, arg>>

KeyNext ==
    \/ FromSec1Bytes
    \/ FromEncodedPoint
    \/ \E compress \in BOOLEAN : ToEncodedPoint(compress)
    \/ Verify
    \/ VerifyDigest
    \/ FromSpki
    \/ FromStrPem

KeySpec == KeyInit /\ [][KeyNext]_vars

(***************************************************************************)
(* Both components together.                                               *)
(***************************************************************************)
Init == HexInit \/ KeyInit

Next == HexNext \/ KeyNext

Spec == Init /\ [][Next]_vars

(***************************************************************************)
(* Properties of the hex codec.                                            *)
(***************************************************************************)
LowerDigits == <<48, 49, 50, 51, 52, 53, 54, 55, 56, 57, 97, 98, 99, 100, 101, 102>>

UpperDigits == <<48, 49, 50, 51, 52, 53, 54, 55, 56, 57, 65, 66, 67, 68, 69, 70>>

IsHexDigit(c) == \E v \in 1..16 : LowerDigits[v] = c \/ UpperDigits[v] = c

\* the character classes, by their ASCII codes
AsciiDigit(c) == c >= 48 /\ c <= 57

AsciiLower(c) == c >= 97 /\ c <= 122

AsciiUpper(c) == c >= 65 /\ c <= 90

IsAlnum(c) == AsciiDigit(c) \/ AsciiLower(c) \/ AsciiUpper(c)

\* the value of a hexadecimal digit, read off the two digit tables
HexValue(c) == (CHOOSE v \in 1..16 : LowerDigits[v] = c \/ UpperDigits[v] = c) - 1

\* the bytes a text of hexadecimal digits spells, pair by pair
SpelledBytes(h) ==
    [i \in 1..(Len(h) \div 2) |-> 16 * HexValue(h[2 * i - 1]) + HexValue(h[2 * i])]

\* the same text with every letter in the other case
SwapCase(h) ==
    [i \in 1..Len(h) |-> IF AsciiLower(h[i]) THEN h[i] - 32
                         ELSE IF AsciiUpper(h[i]) THEN h[i] + 32
                         ELSE h[i]]

HasLower(h) == \E i \in 1..Len(h) : AsciiLower(h[i])

HasUpper(h) == \E i \in 1..Len(h) : AsciiUpper(h[i])

Decoded == last = "from_str"

\* C1: decoding the LowerHex or the UpperHex text of a valid signature
\* returns Ok of that very signature.
C1_HexRoundTrip ==
    (Decoded /\ src.kind = "sig") =>
        /\ hex \in {LowerHex(src.sig), UpperHex(src.sig)}
        /\ res.r = Ok(src.sig)

C1_Witness ==
    /\ Decoded /\ src.kind = "sig"
    /\ hex = LowerHex(src.sig) /\ HasLower(hex)
    /\ \E i \in 1..BYTE_SIZE : ToBytes(src.sig)[i] \in 1..15
    /\ res.r = Ok(src.sig)

\* C2: a text whose length is not 2 * BYTE_SIZE is refused with the error,
\* whatever it holds, before a byte is scanned or a pair parsed.
C2_WrongLengthRejected ==
    (Decoded /\ Len(hex) # 2 * BYTE_SIZE) =>
        /\ res.r = Err(Error_new)
        /\ res.stage = "length"
        /\ res.scanned = 0 /\ res.parsed = 0

C2_Witness ==
    /\ Decoded /\ Len(hex) = 2 * BYTE_SIZE + 1
    /\ \A i \in 1..Len(hex) : hex[i] = 48
    /\ res.r = Err(Error_new) /\ res.scanned = 0

\* C3: a text of the right length holding a lowercase and an uppercase
\* letter, wherever and in whichever order, is refused with the error.
C3_MixedCaseRejected ==
    (Decoded /\ Len(hex) = 2 * BYTE_SIZE /\ HasLower(hex) /\ HasUpper(hex)) =>
        /\ res.r = Err(Error_new)
        /\ res.stage = "scan"

C3_Witness ==
    /\ Decoded /\ Len(hex) = 2 * BYTE_SIZE
    /\ AsciiUpper(hex[1]) /\ AsciiLower(hex[Len(hex)])
    /\ \A i \in 1..Len(hex) : IsHexDigit(hex[i])
    /\ res.r = Err(Error_new)

AllDigits(h) == \A i \in 1..Len(h) : AsciiDigit(h[i])

C8_NonHexRejected ==
    (Decoded /\ Len(hex) = 2 * BYTE_SIZE
             /\ \E i \in 1..Len(hex) : ~IsHexDigit(hex[i])) =>
        /\ res.r = Err(Error_new)
        /\ res.stage \in {"scan", "parse"}
        /\ (\E i \in 1..Len(hex) : ~IsAlnum(hex[i])) => res.stage = "scan"
        /\ ((\A i \in 1..Len(hex) : IsAlnum(hex[i]))
               /\ ~(HasLower(hex) /\ HasUpper(hex))) => res.stage = "parse"

C8_Witness ==
    /\ Decoded /\ Len(hex) = 2 * BYTE_SIZE
    /\ hex[Len(hex)] = 103
    /\ \A i \in 1..(Len(hex) - 1) : IsHexDigit(hex[i])
    /\ res.r = Err(Error_new) /\ res.stage = "parse"

\* C9: for an accepted text, byte i of the signature is
\* 16 * value(char 2i) + value(char 2i+1); the text in the other case
\* decodes to the same bytes; "FF00" and "ff00" give [0xFF, 0x00] and
\* "Ff00" fails.
C9_BytePairValues ==
    /\ (Decoded /\ res.r.ok) =>
          /\ ToBytes(res.r.val) = SpelledBytes(hex)
          /\ from_str(SwapCase(hex)).r = res.r
    /\ (Decoded /\ Len(hex) = 2 * BYTE_SIZE /\ hex \in {<<70, 70, 48, 48>>, <<102, 102, 48, 48>>}) =>
          res.r = Ok([R |-> <<255>>, s |-> <<0>>])
    /\ (Decoded /\ hex = <<70, 102, 48, 48>>) => res.r = Err(Error_new)

C9_Witness ==
    /\ Decoded /\ res.r.ok /\ src.kind = "text"
    /\ AsciiUpper(hex[1]) /\ hex[1] # hex[2]
    /\ ToBytes(res.r.val)[1] = 16 * HexValue(hex[1]) + HexValue(hex[2])
    /\ ToBytes(res.r.val)[1] > ToBytes(res.r.val)[BYTE_SIZE]

Encoded == last \in {"lower_hex", "upper_hex"}

\* C10: for an accepted text h, the LowerHex text of the result is h when
\* h has no uppercase letter and the UpperHex text is h when h has no
\* lowercase letter; every encoding is 2 * BYTE_SIZE hex digits spelling
\* the bytes of R and then those of s.
C10_Canonical ==
    /\ (last = "lower_hex" /\ src.kind = "text" /\ ~HasUpper(src.text)) => hex = src.text
    /\ (last = "upper_hex" /\ src.kind = "text" /\ ~HasLower(src.text)) => hex = src.text
    /\ Encoded =>
          /\ Len(hex) = 2 * BYTE_SIZE
          /\ \A i \in 1..Len(hex) : IsHexDigit(hex[i])
          /\ SpelledBytes(hex) = sig.R \o sig.s

C10_Witness ==
    /\ last = "upper_hex" /\ src.kind = "text"
    /\ HasUpper(src.text) /\ hex = src.text
    /\ sig.R # sig.s

(***************************************************************************)
(* Properties of VerifyingKey.                                             *)
(***************************************************************************)
\* what a signer holding the secret scalar d and the nonce k produces for
\* the message scalar z
Signed(d, k, z) ==
    LET r == Mul(k, Curve.G).x % Curve.n
    IN  [r |-> r, s |-> (InvMod(k, Curve.n) * (z + r * d)) % Curve.n]

\* the message scalar: the digest of the whole message, reduced
MessageScalar(msg) == HashAcc(msg, 0) % Curve.n

\* C5: verify succeeds exactly when the primitive, given the scalar of the
\* digest of the whole message, the signature and the key's point, reports
\* the signature valid, and returns the generic error otherwise;
\* verify_digest is the same check on the caller's digest, and verify is
\* verify_digest of the digest of the message.
C5_VerifyIsThePrimitive ==
    (last \in {"verify", "verify_digest"}) =>
        LET valid == verify_prehashed(key.inner.point, MessageScalar(arg.data),
                                      arg.signature).ok
        IN  /\ kres = IF valid THEN Ok(<<>>) ELSE Err(Error_new)
            /\ last = "verify" =>
                  kres = verify_digest(key, Digest_chain(Digest_new, arg.data),
                                       arg.signature)

C5_Witness ==
    /\ last = "verify" /\ kres = Ok(<<>>)
    /\ Len(arg.data) = MaxMsgLen
    /\ MessageScalar(arg.data) # MessageScalar(<<>>)
    /\ \E d, k \in 1..(Curve.n - 1) :
          /\ key.inner.point = Mul(d, Curve.G)
          /\ arg.signature = Signed(d, k, MessageScalar(arg.data))

KeyOps == {"from_sec1_bytes", "from_encoded_point", "verify", "verify_digest",
           "from_spki", "from_str_pem"}

\* C6 as stated: every fallible operation, from_spki among them, reports a
\* failure as the one payload-free generic error.
C6_OneErrorEverywhere ==
    /\ (last \in KeyOps /\ ~kres.ok) => kres = Err(Error_new)
    /\ (last = "from_str" /\ ~res.r.ok) => res.r = Err(Error_new)

\* C6 as amended: every fallible operation but from_spki reports a failure
\* as the one payload-free generic error; from_spki returns the error of
\* PublicKey::from_spki, a pkcs8::Error, as it is.
C6_OneErrorButSpki ==
    /\ (last \in KeyOps \ {"from_spki"} /\ ~kres.ok) => kres = Err(Error_new)
    /\ (last = "from_str" /\ ~res.r.ok) => res.r = Err(Error_new)
    /\ (last = "from_spki" /\ ~kres.ok) =>
          /\ kres = PublicKey_from_spki(arg.spki)
          /\ kres.err.kind = "pkcs8::Error"

C6_Witness ==
    /\ last = "from_sec1_bytes"
    /\ Len(arg.bytes) = 3 /\ arg.bytes[1] = 4
    /\ kres = Err(Error_new)

\* C7: decoding the encoded point of a valid key, compressed or not,
\* returns Ok of a key equal to it.
C7_KeyRoundTrip ==
    (last = "from_encoded_point" /\ key # None) =>
        /\ arg.point = to_encoded_point(key, arg.compress)
        /\ kres.ok
        /\ eq(kres.val, key)

C7_Witness ==
    /\ last = "from_encoded_point" /\ key # None
    /\ arg.compress /\ arg.point[1] = 3
    /\ kres.ok /\ eq(kres.val, key)

====
